---- MODULE Spec2Model ----
(***************************************************************************)
(* The structural mutations of src/datastore.js (putFile, mkdir,           *)
(* deleteFile, rmdir) against a backend that stores the signed inode tree. *)
(*                                                                         *)
(* A call is a promise chain: the body of the exported function runs up to *)
(* the parent fetch (getParent -> getInode -> httpRequest), the .then      *)
(* callback runs when the backend answers and ends either with a result or *)
(* with the one request of datastoreOperation in flight, and the reply to  *)
(* that request settles the call.                                          *)
(*                                                                         *)
(* Spec covers these mutations.  SpecLifecycle covers datastoreCreate,     *)
(* datastoreDelete, datastoreConnect and datastoreConnectOrCreate,         *)
(* SpecRead covers lookup, listDir, stat and getFile against a stored      *)
(* tree, and SpecSanitize covers sanitizePath on path strings.  SpecRace   *)
(* runs the mutations as two calls in flight at once, and SpecShapes runs  *)
(* them on descriptors with and without devices.                           *)
(*                                                                         *)
(* The helpers imported from ./inode are not part of the sources at hand;  *)
(* they are modelled from the specification (sections 3, 4.3-4.5, 8).      *)
(***************************************************************************)
EXTENDS Integers, Sequences, FiniteSets, TLC

VARIABLES ds, inodes, nextUuid, call, created, stores

vars == <<ds, inodes, nextUuid, call, created, stores>>

-----------------------------------------------------------------------------
(* Bounds of the model *)

\* uuid4() draws 2, 3, ...; a call starts only while the next draw is <= MaxUuid
MaxUuid == 4
\* a call starts only while no stored inode version exceeds MaxVersion
MaxVersion == 5

-----------------------------------------------------------------------------
(* Program constants *)

ENOENT == 2
EACCES == 13
EEXIST == 17
ENOTDIR == 20
EREMOTEIO == 121

MUTABLE_DATUM_FILE_TYPE == "file"
MUTABLE_DATUM_DIR_TYPE == "dir"

-----------------------------------------------------------------------------
(* Values *)

\* the concurrent calls in flight at most
Calls == {"c1"}

\* path segments, and the sanitized paths the calls are issued on:
\* the root itself, entries of the root, and entries one level down
\* (under a directory name and under a file name)
Names == {"a", "f"}
Paths == {<<>>, <<"a">>, <<"f">>, <<"a", "f">>, <<"f", "a">>}
Buffers == {"hello", "bye"}
Ops == {"putFile", "mkdir", "deleteFile", "rmdir"}

\* the datastore the context is connected to
DatastoreId == "ds1"
PrivKey == "priv1"
RootUuid == 1
AllDeviceIds == <<"d1", "d2">>
Uuids == 1..(MaxUuid + Cardinality(Calls))

\* what a template string or a serializer makes of a value that is not a string
NotAUuid == 0

EmptyMap == [n \in {} |-> 0]
Put(m, k, v) == [x \in (DOMAIN m) \cup {k} |-> IF x = k THEN v ELSE m[x]]
Del(m, k) == [x \in (DOMAIN m) \ {k} |-> m[x]]

\* JavaScript values handed to a helper that expects a string
Str(s) == [t |-> "string", v |-> s]
Obj(o) == [t |-> "object", v |-> o]

Err(errno) == [kind |-> "error", errno |-> errno]
IsError(v) == v.kind = "error"

-----------------------------------------------------------------------------
(* Path resolver, on sanitized paths (sequences of segments) *)

\* path.split('/').slice(-1)[0]: "" for the root
basename(path) == IF path = <<>> THEN "" ELSE path[Len(path)]

\* '/' + path.split('/').slice(0, -1).join('/'), sanitized by getInode
dirname(path) == IF path = <<>> THEN <<>> ELSE SubSeq(path, 1, Len(path) - 1)

-----------------------------------------------------------------------------
(* ./inode, modelled from the specification *)

hashDataPayload(payload) == <<"hash", payload>>

signDataPayload(header, privkey) == [signed |-> header, key |-> privkey]

\* A directory's children map holds one entry per name; an entry records
\* the child's uuid, its type and the number of times the name was linked
\* (the number getChildVersion increments).
Dirent(uuid, type, version) == [uuid |-> uuid, type |-> type, version |-> version]

makeHeader(type, owner, uuid, data_hash, device_id, version) ==
    [type |-> type, owner |-> owner, uuid |-> uuid, data_hash |-> data_hash,
     device_id |-> device_id, version |-> version]

makeDirInodeBlob(datastore_id, owner, uuid, children, device_id, version) ==
    LET idata == [children |-> children]
    IN  [header |-> makeHeader(MUTABLE_DATUM_DIR_TYPE, owner, uuid,
                               hashDataPayload(idata), device_id, version),
         idata |-> idata]

makeFileInodeBlob(datastore_id, owner, uuid, data_hash, device_id, version) ==
    [header |-> makeHeader(MUTABLE_DATUM_FILE_TYPE, owner, uuid, data_hash,
                           device_id, version)]

\* the next version of a child: 1 for a new name, one more than the links so far
getChildVersion(parent_dir, child_name) ==
    IF child_name \in DOMAIN parent_dir.idata.children
    THEN parent_dir.idata.children[child_name].version + 1
    ELSE 1

\* a new directory value with child_name -> child_uuid inserted or overwritten
inodeDirLink(parent_dir, child_type, child_name, child_uuid, exists) ==
    [parent_dir EXCEPT
        !.idata.children = Put(@, child_name,
            Dirent(child_uuid, child_type, getChildVersion(parent_dir, child_name))),
        !.version = @ + 1]

\* a new directory value with child_name removed
inodeDirUnlink(parent_dir, child_name) ==
    [parent_dir EXCEPT !.idata.children = Del(@, child_name), !.version = @ + 1]

\* the uuid a tombstone names for the value it was given
tombstoneUuid(val) == IF val.t = "string" THEN val.v ELSE NotAUuid

\* one tombstone per device
makeInodeTombstones(datastore_id, inode_uuid, device_ids) ==
    [i \in 1..Len(device_ids) |->
        [datastore_id |-> datastore_id, uuid |-> tombstoneUuid(inode_uuid),
         device_id |-> device_ids[i]]]

signMutableDataTombstones(tombstones, privkey) ==
    [i \in 1..Len(tombstones) |-> [tombstone |-> tombstones[i], key |-> privkey]]

-----------------------------------------------------------------------------
(* The HTTP gateway *)

None == [kind |-> "none"]

base64(x) == [enc |-> "base64", v |-> x]

\* validateJSONResponse: the parsed body when it matches the schema asked for
\* or the generic error schema, an exception otherwise
validateJSONResponse(resp, result_schema) ==
    IF resp.kind = result_schema \/ resp.kind = "error"
    THEN [rejected |-> FALSE, value |-> resp]
    ELSE [rejected |-> TRUE, value |-> None]

\* httpRequest: what the returned promise settles to for a backend response.
\* A response that never arrives, a status >= 500 and a 401 (whose branch
\* reads the undeclared EINVAL) reject the promise.
httpRequest(response, result_schema) ==
    IF ~response.delivered THEN [rejected |-> TRUE, value |-> None]
    ELSE IF response.status >= 500 THEN [rejected |-> TRUE, value |-> None]
    ELSE IF response.status = 404 THEN [rejected |-> FALSE, value |-> Err(ENOENT)]
    ELSE IF response.status = 403 THEN [rejected |-> FALSE, value |-> Err(EACCES)]
    ELSE IF response.status = 401 THEN [rejected |-> TRUE, value |-> None]
    ELSE IF response.ctype = "application/json"
         THEN validateJSONResponse(response.body, result_schema)
         ELSE [rejected |-> FALSE, value |-> response.body]

Response(status, ctype, body) ==
    [delivered |-> TRUE, status |-> status, ctype |-> ctype, body |-> body]

\* responses of a backend or a transport at fault, whatever was asked
FaultResponses ==
    { [delivered |-> FALSE, status |-> 0, ctype |-> "", body |-> None],
      Response(500, "text/plain", None),
      Response(403, "text/plain", None),
      Response(401, "text/plain", None),
      Response(200, "application/json", Err(EACCES)),
      Response(200, "application/json", [kind |-> "junk"]),
      Response(200, "text/plain", [kind |-> "text", text |-> ""]),
      Response(200, "text/plain", [kind |-> "text", text |-> "x"]) }

\* (mutant) an inode that is not a directory reported as a failed fetch
getParent_NotDirAsFailure(response) ==
    LET p == httpRequest(response, "inode")
        inode == p.value
    IN  IF p.rejected THEN Err(EREMOTEIO)
        ELSE IF inode.kind = "text" /\ inode.text = "" THEN Err(EREMOTEIO)
        ELSE IF inode.kind # "inode" THEN Err(ENOTDIR)
        ELSE IF inode.type # MUTABLE_DATUM_DIR_TYPE THEN Err(EREMOTEIO)
        ELSE inode

\* getInode followed by getParent's two callbacks
getParent(response) ==
    LET p == httpRequest(response, "inode")
        inode == p.value
    IN  IF p.rejected THEN Err(EREMOTEIO)
        ELSE IF inode.kind = "text" /\ inode.text = "" THEN Err(EREMOTEIO)
        ELSE IF inode.kind # "inode" THEN Err(ENOTDIR)
        ELSE IF inode.type # MUTABLE_DATUM_DIR_TYPE THEN Err(ENOTDIR)
        ELSE inode

\* (mutant) the request sent without the assertions
datastoreOperation_NoAsserts(dsx, operation, path, hdrs, payloads, signatures, tombstones) ==
    IF ~dsx.session_token THEN [kind |-> "threw"]
    ELSE [kind |-> "sent",
          request |-> [op |-> operation, path |-> path, inodes |-> hdrs,
                       payloads |-> payloads, signatures |-> signatures,
                       tombstones |-> tombstones,
                       datastore_str |-> dsx.datastore,
                       datastore_sig |-> signDataPayload(dsx.datastore, dsx.privkey_hex)]]

\* datastoreOperation: the assertions, then the headers of the request.
\* Nothing is sent when an assertion fails or when the context has no
\* session token (options['headers'] is then undefined).
datastoreOperation(dsx, operation, path, hdrs, payloads, signatures, tombstones) ==
    LET lengths_ok ==
            /\ Len(hdrs) = Len(payloads)
            /\ Len(payloads) = Len(signatures)
        shape_ok ==
            CASE operation = "mkdir" -> Len(hdrs) = 2
              [] operation = "putFile" -> Len(hdrs) = 1 \/ Len(hdrs) = 2
              [] operation = "rmdir" -> Len(hdrs) = 1 /\ Len(tombstones) >= 1
              [] operation = "deleteFile" -> Len(hdrs) = 1 /\ Len(tombstones) >= 1
              [] OTHER -> FALSE
    IN  IF ~(lengths_ok /\ shape_ok) THEN [kind |-> "threw"]
        ELSE IF ~dsx.session_token THEN [kind |-> "threw"]
        ELSE [kind |-> "sent",
              request |-> [op |-> operation, path |-> path, inodes |-> hdrs,
                           payloads |-> payloads, signatures |-> signatures,
                           tombstones |-> tombstones,
                           datastore_str |-> dsx.datastore,
                           datastore_sig |-> signDataPayload(dsx.datastore, dsx.privkey_hex)]]

Resolved(v) == [kind |-> "resolved", result |-> v]

-----------------------------------------------------------------------------
(* putFile: the callback run on the fetched parent *)

\* the uuid of the file: the existing entry's uuid field, or a new one
putFileInodeUuid(parent_dir, child_name, fresh) ==
    IF child_name \in DOMAIN parent_dir.idata.children
    THEN parent_dir.idata.children[child_name].uuid
    ELSE fresh

putFileNewParent(parent_dir, child_name, inode_uuid) ==
    inodeDirLink(parent_dir, MUTABLE_DATUM_FILE_TYPE, child_name, inode_uuid,
                 child_name \in DOMAIN parent_dir.idata.children)

\* (mutant) the version read after the link of this call was applied
putFileVersion_AfterLink(parent_dir, new_parent_dir_inode, child_name) ==
    getChildVersion(new_parent_dir_inode, child_name)

\* the file's version is taken from the parent as fetched
putFileVersion(parent_dir, new_parent_dir_inode, child_name) ==
    getChildVersion(parent_dir, child_name)

putFileParentInfo(dsx, new_parent_dir_inode) ==
    makeDirInodeBlob(dsx.datastore_id, new_parent_dir_inode.owner,
                     new_parent_dir_inode.uuid, new_parent_dir_inode.idata.children,
                     dsx.device_id, new_parent_dir_inode.version + 1)

\* (mutant) the file inode sent on its own, the parent left for later
putFileSubmit_ChildOnly(dsx, path, inode_info, file_payload, inode_sig, new_parent_info, new_parent_sig) ==
    datastoreOperation(dsx, "putFile", path, <<inode_info.header>>,
        <<file_payload>>, <<inode_sig>>, <<>>)

putFileSubmit(dsx, path, inode_info, file_payload, inode_sig, new_parent_info, new_parent_sig) ==
    datastoreOperation(dsx, "putFile", path,
        <<inode_info.header, new_parent_info.header>>,
        <<file_payload, base64(new_parent_info.idata)>>,
        <<inode_sig, new_parent_sig>>, <<>>)

putFileThen(dsx, path, file_buffer, parent_dir, fresh) ==
    LET child_name == basename(path)
        file_payload == base64(file_buffer)
        file_hash == hashDataPayload(file_buffer)
        inode_uuid == putFileInodeUuid(parent_dir, child_name, fresh)
        new_parent_dir_inode == putFileNewParent(parent_dir, child_name, inode_uuid)
        version == putFileVersion(parent_dir, new_parent_dir_inode, child_name)
        inode_info == makeFileInodeBlob(dsx.datastore_id, dsx.datastore_id, inode_uuid,
                                        file_hash, dsx.device_id, version)
        inode_sig == signDataPayload(inode_info.header, dsx.privkey_hex)
        new_parent_info == putFileParentInfo(dsx, new_parent_dir_inode)
        new_parent_sig == signDataPayload(new_parent_info.header, dsx.privkey_hex)
    IN  IF IsError(parent_dir) THEN Resolved(parent_dir)
        ELSE putFileSubmit(dsx, path, inode_info, file_payload, inode_sig,
                           new_parent_info, new_parent_sig)

\* uuid4() is called only for a name the parent does not hold
putFileDraws(path, parent_dir) ==
    /\ ~IsError(parent_dir)
    /\ basename(path) \notin DOMAIN parent_dir.idata.children

-----------------------------------------------------------------------------
(* mkdir *)

\* (mutant) the check for an existing name left out
mkdirValidate_Skipped(parent_dir, child_name) == None

\* the name must not exist in the parent
mkdirValidate(parent_dir, child_name) ==
    IF child_name \in DOMAIN parent_dir.idata.children THEN Err(EEXIST) ELSE None

\* makeDirInodeBlob without a version: the first version of a uuid
mkdirInodeInfo(dsx, inode_uuid) ==
    makeDirInodeBlob(dsx.datastore_id, dsx.datastore_id, inode_uuid, EmptyMap,
                     dsx.device_id, 1)

\* (mutant) the device written where the owner belongs
mkdirParentInfo_DeviceAsOwner(dsx, new_parent_dir_inode) ==
    makeDirInodeBlob(dsx.datastore_id, dsx.device_id,
                     new_parent_dir_inode.uuid, new_parent_dir_inode.idata.children,
                     dsx.device_id, new_parent_dir_inode.version + 1)

mkdirParentInfo(dsx, new_parent_dir_inode) ==
    makeDirInodeBlob(dsx.datastore_id, new_parent_dir_inode.owner,
                     new_parent_dir_inode.uuid, new_parent_dir_inode.idata.children,
                     dsx.device_id, new_parent_dir_inode.version + 1)

\* (mutant) the parent listed before the child
mkdirSubmit_ParentFirst(dsx, path, inode_info, inode_sig, new_parent_info, new_parent_sig) ==
    datastoreOperation(dsx, "mkdir", path,
        <<new_parent_info.header, inode_info.header>>,
        <<new_parent_info.idata, inode_info.idata>>,
        <<new_parent_sig, inode_sig>>, <<>>)

mkdirSubmit(dsx, path, inode_info, inode_sig, new_parent_info, new_parent_sig) ==
    datastoreOperation(dsx, "mkdir", path,
        <<inode_info.header, new_parent_info.header>>,
        <<inode_info.idata, new_parent_info.idata>>,
        <<inode_sig, new_parent_sig>>, <<>>)

mkdirThen(dsx, path, parent_dir, fresh) ==
    LET child_name == basename(path)
        inode_uuid == fresh
        inode_info == mkdirInodeInfo(dsx, inode_uuid)
        inode_sig == signDataPayload(inode_info.header, dsx.privkey_hex)
        new_parent_dir_inode ==
            inodeDirLink(parent_dir, MUTABLE_DATUM_DIR_TYPE, child_name, inode_uuid, FALSE)
        new_parent_info == mkdirParentInfo(dsx, new_parent_dir_inode)
        new_parent_sig == signDataPayload(new_parent_info.header, dsx.privkey_hex)
    IN  IF IsError(parent_dir) THEN Resolved(parent_dir)
        ELSE IF IsError(mkdirValidate(parent_dir, child_name))
             THEN Resolved(mkdirValidate(parent_dir, child_name))
        ELSE mkdirSubmit(dsx, path, inode_info, inode_sig, new_parent_info, new_parent_sig)

mkdirDraws(path, parent_dir) ==
    /\ ~IsError(parent_dir)
    /\ ~IsError(mkdirValidate(parent_dir, basename(path)))

-----------------------------------------------------------------------------
(* deleteFile *)

\* (mutant) the missing name reported with the errno of mkdir
deleteFileValidate_WrongErrno(parent_dir, child_name) ==
    IF child_name \notin DOMAIN parent_dir.idata.children THEN Err(EEXIST) ELSE None

\* the name must exist in the parent
deleteFileValidate(parent_dir, child_name) ==
    IF child_name \notin DOMAIN parent_dir.idata.children THEN Err(ENOENT) ELSE None

\* what the callback takes for the uuid of the removed inode: the whole entry
deleteFileInodeUuid(parent_dir, child_name) ==
    Obj(parent_dir.idata.children[child_name])

\* (mutant) the version bumped but the name left in the children
deleteFileUnlink_Forgotten(parent_dir, child_name) ==
    [parent_dir EXCEPT !.version = @ + 1]

deleteFileUnlink(parent_dir, child_name) == inodeDirUnlink(parent_dir, child_name)

deleteFileParentInfo(dsx, new_parent_dir_inode) ==
    makeDirInodeBlob(dsx.datastore_id, new_parent_dir_inode.owner,
                     new_parent_dir_inode.uuid, new_parent_dir_inode.idata.children,
                     dsx.device_id, new_parent_dir_inode.version + 1)

deleteFileSubmit(dsx, path, new_parent_info, new_parent_sig, signed_tombstones) ==
    datastoreOperation(dsx, "deleteFile", path, <<new_parent_info.header>>,
        <<new_parent_info.idata>>, <<new_parent_sig>>, signed_tombstones)

deleteFileThen(dsx, path, parent_dir) ==
    LET child_name == basename(path)
        all_device_ids == dsx.datastore.device_ids
        inode_uuid == deleteFileInodeUuid(parent_dir, child_name)
        new_parent_dir_inode == deleteFileUnlink(parent_dir, child_name)
        new_parent_info == deleteFileParentInfo(dsx, new_parent_dir_inode)
        new_parent_sig == signDataPayload(new_parent_info.header, dsx.privkey_hex)
        tombstones == makeInodeTombstones(dsx.datastore_id, inode_uuid, all_device_ids)
        signed_tombstones == signMutableDataTombstones(tombstones, dsx.privkey_hex)
    IN  IF IsError(parent_dir) THEN Resolved(parent_dir)
        ELSE IF IsError(deleteFileValidate(parent_dir, child_name))
             THEN Resolved(deleteFileValidate(parent_dir, child_name))
        ELSE deleteFileSubmit(dsx, path, new_parent_info, new_parent_sig, signed_tombstones)

-----------------------------------------------------------------------------
(* rmdir *)

rmdirValidate(parent_dir, child_name) ==
    IF child_name \notin DOMAIN parent_dir.idata.children THEN Err(ENOENT) ELSE None

rmdirInodeUuid(parent_dir, child_name) ==
    Obj(parent_dir.idata.children[child_name])

rmdirUnlink(parent_dir, child_name) == inodeDirUnlink(parent_dir, child_name)

rmdirParentInfo(dsx, new_parent_dir_inode) ==
    makeDirInodeBlob(dsx.datastore_id, new_parent_dir_inode.owner,
                     new_parent_dir_inode.uuid, new_parent_dir_inode.idata.children,
                     dsx.device_id, new_parent_dir_inode.version + 1)

rmdirSubmit(dsx, path, new_parent_info, new_parent_sig, signed_tombstones) ==
    datastoreOperation(dsx, "rmdir", path, <<new_parent_info.header>>,
        <<new_parent_info.idata>>, <<new_parent_sig>>, signed_tombstones)

rmdirThen(dsx, path, parent_dir) ==
    LET child_name == basename(path)
        all_device_ids == dsx.datastore.device_ids
        inode_uuid == rmdirInodeUuid(parent_dir, child_name)
        new_parent_dir_inode == rmdirUnlink(parent_dir, child_name)
        new_parent_info == rmdirParentInfo(dsx, new_parent_dir_inode)
        new_parent_sig == signDataPayload(new_parent_info.header, dsx.privkey_hex)
        tombstones == makeInodeTombstones(dsx.datastore_id, inode_uuid, all_device_ids)
        signed_tombstones == signMutableDataTombstones(tombstones, dsx.privkey_hex)
    IN  IF IsError(parent_dir) THEN Resolved(parent_dir)
        ELSE IF IsError(rmdirValidate(parent_dir, child_name))
             THEN Resolved(rmdirValidate(parent_dir, child_name))
        ELSE rmdirSubmit(dsx, path, new_parent_info, new_parent_sig, signed_tombstones)

\* the callback of each operation
Then(op, dsx, path, file_buffer, parent_dir, fresh) ==
    CASE op = "putFile" -> putFileThen(dsx, path, file_buffer, parent_dir, fresh)
      [] op = "mkdir" -> mkdirThen(dsx, path, parent_dir, fresh)
      [] op = "deleteFile" -> deleteFileThen(dsx, path, parent_dir)
      [] op = "rmdir" -> rmdirThen(dsx, path, parent_dir)

Draws(op, path, parent_dir) ==
    CASE op = "putFile" -> putFileDraws(path, parent_dir)
      [] op = "mkdir" -> mkdirDraws(path, parent_dir)
      [] OTHER -> FALSE

-----------------------------------------------------------------------------
(* The backend: the inode store, keyed by uuid *)

StoredInode(header, idata) ==
    [kind |-> "inode", type |-> header.type, uuid |-> header.uuid,
     owner |-> header.owner, version |-> header.version, idata |-> idata]

\* the payload of a header, decoded
payloadData(header, payload) ==
    IF header.type = MUTABLE_DATUM_FILE_TYPE THEN payload.v
    ELSE IF "enc" \in DOMAIN payload THEN payload.v
    ELSE payload

\* the uuid a path leads to from the inode cur, NotAUuid when it leads nowhere
RECURSIVE Walk(_, _, _)
Walk(store, cur, path) ==
    IF cur \notin DOMAIN store THEN NotAUuid
    ELSE IF path = <<>> THEN cur
    ELSE IF store[cur].type # MUTABLE_DATUM_DIR_TYPE THEN NotAUuid
    ELSE IF Head(path) \notin DOMAIN store[cur].idata.children THEN NotAUuid
    ELSE Walk(store, store[cur].idata.children[Head(path)].uuid, Tail(path))

\* the answer to a fetch of the inode at path
BackendFetch(store, path) ==
    LET u == Walk(store, RootUuid, path)
    IN  IF u = NotAUuid THEN Response(404, "text/plain", None)
        ELSE Response(200, "application/json", store[u])

\* a version not greater than the one held for the uuid is stale
Acceptable(store, req) ==
    \A i \in 1..Len(req.inodes) :
        req.inodes[i].uuid \in DOMAIN store
            => req.inodes[i].version > store[req.inodes[i].uuid].version

RECURSIVE ApplyInodes(_, _, _)
ApplyInodes(store, req, i) ==
    IF i > Len(req.inodes) THEN store
    ELSE ApplyInodes(
            Put(store, req.inodes[i].uuid,
                StoredInode(req.inodes[i], payloadData(req.inodes[i], req.payloads[i]))),
            req, i + 1)

ApplyTombstones(store, req) ==
    LET dead == {req.tombstones[i].tombstone.uuid : i \in 1..Len(req.tombstones)}
    IN  [u \in (DOMAIN store) \ dead |-> store[u]]

\* all the artifacts of a request, or none
Apply(store, req) == ApplyTombstones(ApplyInodes(store, req, 1), req)

\* History kept beside the store, per parent uuid and name: the uuid the
\* name was created under, and the accepted links (and putFiles) of the
\* name since
CreatedKey(req) == <<req.inodes[Len(req.inodes)].uuid, basename(req.path)>>

RecordCreated(cr, req) ==
    LET key == CreatedKey(req)
        puts == IF req.op = "putFile" THEN 1 ELSE 0
    IN  IF req.op \in {"deleteFile", "rmdir"} THEN Del(cr, key)
        ELSE IF key \in DOMAIN cr
             THEN Put(cr, key, [cr[key] EXCEPT !.links = @ + 1, !.puts = @ + puts])
             ELSE Put(cr, key, [kind |-> "entry", uuid |-> req.inodes[1].uuid,
                                links |-> 1, puts |-> puts])

-----------------------------------------------------------------------------
(* The calls *)

Idle ==
    [pc |-> "idle", op |-> "none", path |-> <<>>, buf |-> "", parent |-> None,
     request |-> None, result |-> None, nfetch |-> 0, nsent |-> 0,
     applied |-> FALSE, seen |-> None, fresh |-> NotAUuid]

\* (mutant) a refused request makes the call fetch the parent again
afterSubmit_Retry(res) ==
    IF res.rejected \/ IsError(res.value) THEN "fetching" ELSE "done"

\* the promise of datastoreOperation is returned as the promise of the call:
\* whatever it settles to ends the call
afterSubmit(res) == "done"

\* what the call's promise settles to
Settled(res) == IF res.rejected THEN [kind |-> "exception"] ELSE res.value

Init ==
    /\ ds \in { [datastore_id |-> DatastoreId, device_id |-> AllDeviceIds[1],
                 privkey_hex |-> PrivKey, session_token |-> tok,
                 datastore |-> [device_ids |-> AllDeviceIds, root_uuid |-> RootUuid]]
               : tok \in BOOLEAN }
    /\ inodes = [u \in {RootUuid} |->
                    [kind |-> "inode", type |-> MUTABLE_DATUM_DIR_TYPE, uuid |-> RootUuid,
                     owner |-> DatastoreId, version |-> 1,
                     idata |-> [children |-> EmptyMap]]]
    /\ nextUuid = RootUuid + 1
    /\ call = [c \in Calls |-> Idle]
    /\ created = EmptyMap
    /\ stores = [d \in {DatastoreId} |-> [device_ids |-> AllDeviceIds, root_uuid |-> RootUuid]]

\* the exported function up to the request for the parent
Start(c, op, path, buf) ==
    /\ call[c].pc = "idle"
    /\ nextUuid <= MaxUuid
    /\ \A u \in DOMAIN inodes : inodes[u].version <= MaxVersion
    /\ call' = [call EXCEPT ![c] =
                   [Idle EXCEPT !.pc = "fetching", !.op = op, !.path = path,
                                !.buf = buf, !.nfetch = 1]]
    /\ UNCHANGED <<ds, inodes, nextUuid, created, stores>>

\* the parent arrives (or not) and the callback runs to its end
FetchReply(c, response) ==
    /\ call[c].pc = "fetching"
    /\ LET parent_dir == getParent(response)
           step == Then(call[c].op, ds, call[c].path, call[c].buf, parent_dir, nextUuid)
           drew == Draws(call[c].op, call[c].path, parent_dir)
           key == <<parent_dir.uuid, basename(call[c].path)>>
           seen == IF IsError(parent_dir) \/ key \notin DOMAIN created
                   THEN None ELSE created[key]
       IN  /\ call' = [call EXCEPT ![c] =
                 [@ EXCEPT
                    !.parent = parent_dir,
                    !.seen = seen,
                    !.fresh = IF drew THEN nextUuid ELSE NotAUuid,
                    !.pc = IF step.kind = "sent" THEN "submitting" ELSE "done",
                    !.request = IF step.kind = "sent" THEN step.request ELSE None,
                    !.nsent = IF step.kind = "sent" THEN @ + 1 ELSE @,
                    !.result = CASE step.kind = "sent" -> None
                                 [] step.kind = "resolved" -> step.result
                                 [] step.kind = "threw" -> [kind |-> "exception"]]]
           /\ nextUuid' = IF drew THEN nextUuid + 1 ELSE nextUuid
    /\ UNCHANGED <<ds, inodes, created, stores>>

\* the reply to the request settles the call
Reply(c, response, applied) ==
    LET res == httpRequest(response, "success_fail")
        pc == afterSubmit(res)
    IN  call' = [call EXCEPT ![c] =
            [@ EXCEPT !.pc = pc,
                      !.result = IF pc = "done" THEN Settled(res) ELSE None,
                      !.nfetch = IF pc = "fetching" THEN @ + 1 ELSE @,
                      !.applied = applied]]

\* the backend applies the request; its answer may be lost on the way
BackendAccept(c, response) ==
    /\ call[c].pc = "submitting"
    /\ Acceptable(inodes, call[c].request)
    /\ inodes' = Apply(inodes, call[c].request)
    /\ created' = RecordCreated(created, call[c].request)
    /\ Reply(c, response, TRUE)
    /\ UNCHANGED <<ds, nextUuid, stores>>

\* the backend refuses the request, or never gets it
BackendRefuse(c, response) ==
    /\ call[c].pc = "submitting"
    /\ Reply(c, response, FALSE)
    /\ UNCHANGED <<ds, inodes, nextUuid, created, stores>>

\* the caller has the result; the slot is free for the next call
Return(c) ==
    /\ call[c].pc = "done"
    /\ call' = [call EXCEPT ![c] = Idle]
    /\ UNCHANGED <<ds, inodes, nextUuid, created, stores>>

AcceptResponses ==
    { Response(200, "application/json", [kind |-> "success_fail"]),
      [delivered |-> FALSE, status |-> 0, ctype |-> "", body |-> None] }

RefuseResponses ==
    FaultResponses \cup
    { Response(404, "text/plain", None),
      Response(200, "application/json", Err(EEXIST)) }

Next ==
    \E c \in Calls :
        \/ \E op \in Ops, path \in Paths :
              \E buf \in (IF op = "putFile" THEN Buffers ELSE {""}) :
                  Start(c, op, path, buf)
        \/ \E response \in {BackendFetch(inodes, dirname(call[c].path))} \cup FaultResponses :
              FetchReply(c, response)
        \/ \E response \in AcceptResponses : BackendAccept(c, response)
        \/ \E response \in RefuseResponses : BackendRefuse(c, response)
        \/ Return(c)

Spec == Init /\ [][Next]_vars

-----------------------------------------------------------------------------
(* The datastore lifecycle: createRequest, create, connect, connectOrCreate, *)
(* delete.  In this part of the model ds is the context the caller holds    *)
(* (None before a connect succeeded), stores is the backend's map from      *)
(* datastore id to descriptor and inodes its inode store.                   *)

PrivKeys == {"priv1", "priv2"}
Drivers == <<"disk">>
DeviceLists == {<<"d1">>, <<"d1", "d2">>}

\* undefined, as opposed to null (None)
Undefined == [kind |-> "undefined"]

\* !v for the values a response can be
Falsy(v) == v.kind \in {"none", "undefined"} \/ (v.kind = "text" /\ v.text = "")

\* key derivation (bitcoinjs): one public key and one address per private key
getPubkeyHex(privkey_hex) == IF privkey_hex = "priv1" THEN "pub1" ELSE "pub2"

datastoreGetId(ds_public_key_hex) == IF ds_public_key_hex = "pub1" THEN "ds1" ELSE "ds2"

\* `${datastore_id}.datastore`
datastoreDataId(datastore_id) == <<datastore_id, ".datastore">>

\* ./util and ./inode, modelled from the specification
jsonStableSerialize(value) == [json |-> value]

jsonParse(str) == str.json

makeMutableDataInfo(data_id, data_payload, device_id, version) ==
    [data_id |-> data_id, payload |-> data_payload, device_id |-> device_id,
     version |-> version]

makeMutableDataTombstones(device_ids, data_id) ==
    [i \in 1..Len(device_ids) |-> [device_id |-> device_ids[i], data_id |-> data_id]]

\* datastoreCreateRequest, piece by piece
createRootBlob(datastore_id, root_uuid, device_id) ==
    makeDirInodeBlob(datastore_id, datastore_id, root_uuid, EmptyMap, device_id, 1)

createDatastoreInfo(ds_type, ds_public_key, drivers, all_device_ids, root_uuid) ==
    [type |-> ds_type, pubkey |-> ds_public_key, drivers |-> drivers,
     device_ids |-> all_device_ids, root_uuid |-> root_uuid]

createDatastoreBlob(datastore_id, datastore_info, device_id) ==
    makeMutableDataInfo(datastoreDataId(datastore_id),
                        jsonStableSerialize(datastore_info), device_id, 1)

\* (mutant) the tombstones made for all devices but the first
createRootTombstones_SkipFirst(datastore_id, root_uuid, all_device_ids) ==
    makeInodeTombstones(datastore_id, Str(root_uuid), Tail(all_device_ids))

createRootTombstones(datastore_id, root_uuid, all_device_ids) ==
    makeInodeTombstones(datastore_id, Str(root_uuid), all_device_ids)

\* root_uuid is the uuid4() drawn at the start of the function
datastoreCreateRequest(ds_type, ds_private_key_hex, drivers, device_id, all_device_ids, root_uuid) ==
    LET ds_public_key == getPubkeyHex(ds_private_key_hex)
        datastore_id == datastoreGetId(ds_public_key)
        root_blob_info == createRootBlob(datastore_id, root_uuid, device_id)
        datastore_info ==
            createDatastoreInfo(ds_type, ds_public_key, drivers, all_device_ids, root_uuid)
        datastore_blob == createDatastoreBlob(datastore_id, datastore_info, device_id)
        datastore_str == jsonStableSerialize(datastore_blob)
        root_sig == signDataPayload(root_blob_info.header, ds_private_key_hex)
        datastore_sig == signDataPayload(datastore_str, ds_private_key_hex)
        root_tombstones == createRootTombstones(datastore_id, root_uuid, all_device_ids)
        signed_tombstones == signMutableDataTombstones(root_tombstones, ds_private_key_hex)
    IN  IF ds_type \notin {"datastore", "collection"} THEN [kind |-> "threw"]
        ELSE [kind |-> "info",
              datastore_info |->
                  [datastore_id |-> datastore_id, datastore_blob |-> datastore_str,
                   root_blob_header |-> root_blob_info.header,
                   root_blob_idata |-> root_blob_info.idata],
              datastore_sigs |-> [datastore_sig |-> datastore_sig, root_sig |-> root_sig],
              root_tombstones |-> signed_tombstones]

\* datastoreCreate: the payload and the headers of the request; without a
\* session token options['headers'] is undefined and nothing is sent
datastoreCreate(blockstack_session_token, datastore_request) ==
    IF ~blockstack_session_token THEN [kind |-> "threw"]
    ELSE [kind |-> "sent",
          request |->
              [op |-> "create",
               datastore_info |->
                   [datastore_blob |-> datastore_request.datastore_info.datastore_blob,
                    root_blob_header |-> datastore_request.datastore_info.root_blob_header,
                    root_blob_idata |-> datastore_request.datastore_info.root_blob_idata],
               datastore_sigs |-> datastore_request.datastore_sigs,
               root_tombstones |-> datastore_request.root_tombstones]]

datastoreDeleteRequest(dsx) ==
    LET datastore_id == dsx.datastore_id
        device_ids == dsx.datastore.device_ids
        root_uuid == dsx.datastore.root_uuid
        tombstones == makeMutableDataTombstones(device_ids, datastoreDataId(datastore_id))
        root_tombstones == makeInodeTombstones(datastore_id, Str(root_uuid), device_ids)
    IN  [datastore_tombstones |-> signMutableDataTombstones(tombstones, dsx.privkey_hex),
         root_tombstones |-> signMutableDataTombstones(root_tombstones, dsx.privkey_hex)]

\* an optional argument: left out, or given with a value
Absent == [given |-> FALSE]
Given(v) == [given |-> TRUE, v |-> v]

\* the tombstones datastoreDelete puts in its payload
datastoreDeletePayload(dsx, ds_tombstones, root_tombstones) ==
    IF ~ds_tombstones.given \/ ~root_tombstones.given
    THEN datastoreDeleteRequest(dsx)
    ELSE [datastore_tombstones |-> ds_tombstones.v, root_tombstones |-> root_tombstones.v]

\* the context holds a descriptor (not null, not undefined)
HasDescriptor(dsx) == "device_ids" \in DOMAIN dsx.datastore

\* datastoreDelete up to its request: the context must hold a descriptor
\* (ds.datastore.device_ids is read) and a session token (as in datastoreCreate)
datastoreDelete(dsx, ds_tombstones, root_tombstones) ==
    IF ~HasDescriptor(dsx) THEN [kind |-> "threw"]
    ELSE IF ~dsx.session_token THEN [kind |-> "threw"]
    ELSE [kind |-> "sent",
          request |->
              [op |-> "deleteDatastore",
               device_list |-> dsx.datastore.device_ids,
               payload |-> datastoreDeletePayload(dsx, ds_tombstones, root_tombstones)]]

\* datastoreConnect: the context it builds before the request
datastoreConnectCtx(blockstack_session_token, datastore_id, data_privkey_hex, device_id) ==
    [kind |-> "ctx",
     session_token |-> blockstack_session_token,
     device_id |-> device_id,
     datastore_id |-> IF data_privkey_hex # ""
                      THEN datastoreGetId(getPubkeyHex(data_privkey_hex))
                      ELSE datastore_id,
     privkey_hex |-> data_privkey_hex,
     datastore |-> None]

\* datastoreConnect: its callback on the settled request
datastoreConnectThen(ctx, p) ==
    IF p.rejected THEN p
    ELSE IF Falsy(p.value) \/ IsError(p.value) THEN p
    ELSE [rejected |-> FALSE,
          value |-> [ctx EXCEPT !.datastore =
                        IF p.value.kind = "datastore" THEN p.value.datastore
                        ELSE Undefined]]

\* an error object made by connectOrCreate itself: .error without .errno
Failed(msg) == [kind |-> "error", error |-> msg]

\* what window.localStorage.getItem("blockstack") can be in a build: no
\* window at all, no such item (null), or the item (a string).  The reads
\* counted are those that reached the storage; every one of the outcomes
\* ends in an exception (a property of null, or of a string that has no such
\* property and fails the assert, or the undeclared userDta).
Storages == {"no window", "null", "string"}

localStorageFallback(storage) ==
    [reads |-> IF storage = "no window" THEN 0 ELSE 1, threw |-> TRUE]

\* (mutant) any failed connect leads to a create
needsCreate_AnyError(datastore_ctx) == IsError(datastore_ctx)

\* datastore_ctx.error && datastore_ctx.errno === ENOENT
needsCreate(datastore_ctx) ==
    IsError(datastore_ctx) /\ datastore_ctx.errno = ENOENT

\* what a callback sees of a settled promise
Outcome(p) == IF p.rejected THEN [kind |-> "rejected"] ELSE p.value

LcIdle ==
    [pc |-> "idle", op |-> "none", privkey |-> "", session |-> FALSE,
     this_device_id |-> "", all_device_ids |-> <<>>, ds_type |-> "",
     ds_tombstones |-> Absent, root_tombstones |-> Absent,
     ambient |-> 0, nconnect |-> 0, ncreate |-> 0, ndelete |-> 0,
     ctx |-> None, info |-> None, request |-> None,
     first |-> None, createres |-> None, second |-> None, result |-> None]

InitLifecycle ==
    /\ ds = None
    /\ inodes = EmptyMap
    /\ stores = EmptyMap
    /\ nextUuid = RootUuid
    /\ call = [c \in Calls |-> LcIdle]
    /\ created = EmptyMap

\* the exported datastoreCreateRequest, called on its own
CreateRequestCall(c, ds_type, privkey, device_id, all_device_ids) ==
    /\ call[c].pc = "idle"
    /\ nextUuid <= MaxUuid
    /\ LET info == datastoreCreateRequest(ds_type, privkey, Drivers, device_id,
                                          all_device_ids, nextUuid)
       IN  call' = [call EXCEPT ![c] =
               [LcIdle EXCEPT !.pc = "done", !.op = "createRequest",
                              !.ds_type = ds_type, !.privkey = privkey,
                              !.this_device_id = device_id,
                              !.all_device_ids = all_device_ids,
                              !.info = IF info.kind = "info" THEN info ELSE None,
                              !.result = IF info.kind = "info" THEN info
                                         ELSE [kind |-> "exception"]]]
    /\ nextUuid' = nextUuid + 1
    /\ UNCHANGED <<ds, inodes, created, stores>>

\* the exported datastoreConnect, up to its request
ConnectStart(c, privkey, session, device_id) ==
    /\ call[c].pc = "idle"
    /\ nextUuid <= MaxUuid
    /\ call' = [call EXCEPT ![c] =
           [LcIdle EXCEPT !.pc = "connect1", !.op = "connect",
                          !.privkey = privkey, !.session = session,
                          !.this_device_id = device_id, !.nconnect = 1,
                          !.ctx = datastoreConnectCtx(session, "", privkey, device_id)]]
    /\ UNCHANGED <<ds, inodes, nextUuid, created, stores>>

\* datastoreConnectOrCreate, up to its first connect: a missing argument
\* sends it to the local storage, which ends the call with an exception
ConnectOrCreateStart(c, privkey, session, this_device_id, all_device_ids, storage) ==
    /\ call[c].pc = "idle"
    /\ nextUuid <= MaxUuid
    /\ LET missing == privkey = "" \/ ~session \/ this_device_id = ""
                        \/ all_device_ids = <<>>
           args == [LcIdle EXCEPT !.op = "connectOrCreate", !.ds_type = "datastore",
                                  !.privkey = privkey, !.session = session,
                                  !.this_device_id = this_device_id,
                                  !.all_device_ids = all_device_ids]
       IN  call' = [call EXCEPT ![c] =
               IF missing
               THEN [args EXCEPT !.pc = "done",
                                 !.ambient = localStorageFallback(storage).reads,
                                 !.result = [kind |-> "exception"]]
               ELSE [args EXCEPT !.pc = "connect1", !.nconnect = 1,
                                 !.ctx = datastoreConnectCtx(session, "", privkey,
                                                             this_device_id)]]
    /\ UNCHANGED <<ds, inodes, nextUuid, created, stores>>

\* the answer to the exported datastoreConnect settles it
ConnectReply(c, response) ==
    /\ call[c].pc = "connect1"
    /\ call[c].op = "connect"
    /\ LET p == datastoreConnectThen(call[c].ctx, httpRequest(response, "datastore"))
       IN  call' = [call EXCEPT ![c] =
               [@ EXCEPT !.pc = "done", !.first = Outcome(p), !.result = Settled(p)]]
    /\ UNCHANGED <<ds, inodes, nextUuid, created, stores>>

\* connectOrCreate: the callbacks on its first connect
FirstConnectReply(c, response) ==
    /\ call[c].pc = "connect1"
    /\ call[c].op = "connectOrCreate"
    /\ LET p == datastoreConnectThen(call[c].ctx, httpRequest(response, "datastore"))
           create == ~p.rejected /\ needsCreate(p.value)
           info == datastoreCreateRequest("datastore", call[c].privkey, Drivers,
                       call[c].this_device_id, call[c].all_device_ids, nextUuid)
           step == datastoreCreate(call[c].session, info)
       IN  /\ call' = [call EXCEPT ![c] =
                 IF p.rejected
                 THEN [@ EXCEPT !.pc = "done", !.first = Outcome(p),
                                !.result = Failed("Failed to connect to storage endpoint")]
                 ELSE IF ~create
                 THEN [@ EXCEPT !.pc = "done", !.first = Outcome(p), !.result = p.value]
                 ELSE IF step.kind = "sent"
                 THEN [@ EXCEPT !.pc = "creating", !.first = Outcome(p), !.info = info,
                                !.request = step.request, !.ncreate = @ + 1]
                 ELSE [@ EXCEPT !.pc = "done", !.first = Outcome(p), !.info = info,
                                !.result = [kind |-> "exception"]]]
           /\ nextUuid' = IF create THEN nextUuid + 1 ELSE nextUuid
    /\ UNCHANGED <<ds, inodes, created, stores>>

\* connectOrCreate: the callbacks on its create
CreateReply(c, response) ==
    LET p == httpRequest(response, "success_fail")
    IN  call' = [call EXCEPT ![c] =
            IF p.rejected
            THEN [@ EXCEPT !.pc = "done", !.createres = Outcome(p),
                           !.result = Failed("Failed to create datastore")]
            ELSE IF IsError(p.value)
            THEN [@ EXCEPT !.pc = "done", !.createres = Outcome(p), !.result = p.value]
            ELSE [@ EXCEPT !.pc = "connect2", !.createres = Outcome(p),
                           !.nconnect = @ + 1]]

\* the backend stores the descriptor and the root; its answer may be lost
BackendCreateAccept(c, response) ==
    /\ call[c].pc = "creating"
    /\ LET r == call[c].request
           info == jsonParse(jsonParse(r.datastore_info.datastore_blob).payload)
           id == datastoreGetId(info.pubkey)
       IN  /\ id \notin DOMAIN stores
           /\ stores' = Put(stores, id, info)
           /\ inodes' = Put(inodes, r.datastore_info.root_blob_header.uuid,
                            StoredInode(r.datastore_info.root_blob_header,
                                        r.datastore_info.root_blob_idata))
    /\ CreateReply(c, response)
    /\ UNCHANGED <<ds, nextUuid, created>>

BackendCreateRefuse(c, response) ==
    /\ call[c].pc = "creating"
    /\ CreateReply(c, response)
    /\ UNCHANGED <<ds, inodes, nextUuid, created, stores>>

\* connectOrCreate: its second connect is returned as it settles
SecondConnectReply(c, response) ==
    /\ call[c].pc = "connect2"
    /\ LET p == datastoreConnectThen(call[c].ctx, httpRequest(response, "datastore"))
       IN  call' = [call EXCEPT ![c] =
               [@ EXCEPT !.pc = "done", !.second = Outcome(p), !.result = Settled(p)]]
    /\ UNCHANGED <<ds, inodes, nextUuid, created, stores>>

\* datastoreDelete on the context held, up to its request
DeleteStart(c, ds_tombstones, root_tombstones) ==
    /\ call[c].pc = "idle"
    /\ ds.kind = "ctx"
    /\ LET step == datastoreDelete(ds, ds_tombstones, root_tombstones)
       IN  call' = [call EXCEPT ![c] =
               IF step.kind = "sent"
               THEN [LcIdle EXCEPT !.pc = "deleting", !.op = "deleteDatastore",
                                   !.ds_tombstones = ds_tombstones,
                                   !.root_tombstones = root_tombstones,
                                   !.ctx = ds, !.request = step.request, !.ndelete = 1]
               ELSE [LcIdle EXCEPT !.pc = "done", !.op = "deleteDatastore",
                                   !.ds_tombstones = ds_tombstones,
                                   !.root_tombstones = root_tombstones,
                                   !.ctx = ds, !.result = [kind |-> "exception"]]]
    /\ UNCHANGED <<ds, inodes, nextUuid, created, stores>>

DeleteReply(c, response) ==
    call' = [call EXCEPT ![c] =
        [@ EXCEPT !.pc = "done", !.result = Settled(httpRequest(response, "success_fail"))]]

\* the backend drops the descriptor and what the root tombstones name
BackendDeleteAccept(c, response) ==
    /\ call[c].pc = "deleting"
    /\ call[c].ctx.datastore_id \in DOMAIN stores
    /\ stores' = Del(stores, call[c].ctx.datastore_id)
    /\ inodes' = ApplyTombstones(inodes,
                     [tombstones |-> call[c].request.payload.root_tombstones])
    /\ DeleteReply(c, response)
    /\ UNCHANGED <<ds, nextUuid, created>>

BackendDeleteRefuse(c, response) ==
    /\ call[c].pc = "deleting"
    /\ DeleteReply(c, response)
    /\ UNCHANGED <<ds, inodes, nextUuid, created, stores>>

\* the caller has the result and keeps a context it was given
LcReturn(c) ==
    /\ call[c].pc = "done"
    /\ ds' = IF call[c].op \in {"connect", "connectOrCreate"} /\ call[c].result.kind = "ctx"
             THEN call[c].result ELSE ds
    /\ call' = [call EXCEPT ![c] = LcIdle]
    /\ UNCHANGED <<inodes, nextUuid, created, stores>>

\* the backend's answer to a connect, and the answers of one at fault
BackendConnect(datastore_id) ==
    IF datastore_id \in DOMAIN stores
    THEN Response(200, "application/json",
                  [kind |-> "datastore", datastore |-> stores[datastore_id]])
    ELSE Response(404, "text/plain", None)

ConnectResponses(c) ==
    IF call[c].ctx = None THEN {}
    ELSE {BackendConnect(call[c].ctx.datastore_id), Response(404, "text/plain", None)}
             \cup FaultResponses

\* tombstones a caller may hold from an earlier datastoreDeleteRequest
Precomputed(dsx) ==
    IF dsx.kind # "ctx" THEN {}
    ELSE IF ~HasDescriptor(dsx) THEN {}
    ELSE { datastoreDeleteRequest(dsx),
           datastoreDeleteRequest([dsx EXCEPT !.datastore.device_ids = <<"d1">>]) }

OptionalTombstones(dsx, field) ==
    {Absent} \cup { Given(b[field]) : b \in Precomputed(dsx) }

NextLifecycle ==
    \E c \in Calls :
        \/ \E ds_type \in {"datastore", "collection", "other"}, privkey \in PrivKeys,
              all_device_ids \in DeviceLists :
              CreateRequestCall(c, ds_type, privkey, "d1", all_device_ids)
        \/ \E session \in BOOLEAN :
              ConnectStart(c, PrivKey, session, "d1")
        \/ \E privkey \in {PrivKey, ""}, session \in BOOLEAN,
              this_device_id \in {"", "d1"}, all_device_ids \in DeviceLists \cup {<<>>},
              storage \in Storages :
              ConnectOrCreateStart(c, privkey, session, this_device_id, all_device_ids, storage)
        \/ \E response \in ConnectResponses(c) :
              ConnectReply(c, response)
        \/ \E response \in ConnectResponses(c) :
              FirstConnectReply(c, response)
        \/ \E response \in AcceptResponses : BackendCreateAccept(c, response)
        \/ \E response \in RefuseResponses : BackendCreateRefuse(c, response)
        \/ \E response \in ConnectResponses(c) :
              SecondConnectReply(c, response)
        \/ \E ds_tombstones \in OptionalTombstones(ds, "datastore_tombstones"),
              root_tombstones \in OptionalTombstones(ds, "root_tombstones") :
              DeleteStart(c, ds_tombstones, root_tombstones)
        \/ \E response \in AcceptResponses : BackendDeleteAccept(c, response)
        \/ \E response \in RefuseResponses : BackendDeleteRefuse(c, response)
        \/ LcReturn(c)

SpecLifecycle == InitLifecycle /\ [][NextLifecycle]_vars

-----------------------------------------------------------------------------
(* The reads: lookup, listDir, stat, getFile.  Each is one request whose   *)
(* promise is returned as it is.                                           *)

ReadOps == {"lookup", "listDir", "stat", "getFile"}
ReadPaths == {<<>>, <<"a">>, <<"a", "f">>, <<"f">>}
Opts == [extended : BOOLEAN, force : BOOLEAN, idata : BOOLEAN]

\* the endpoint and the schema of each read without options
readEndpoint(op) ==
    CASE op = "lookup" -> "inodes"
      [] op = "listDir" -> "directories"
      [] op = "stat" -> "inodes"
      [] op = "getFile" -> "files"

readSchema(op) ==
    CASE op = "lookup" -> "lookup"
      [] op = "listDir" -> "dir_idata"
      [] op = "stat" -> "inode"
      [] op = "getFile" -> "success_fail"

\* opts.extended: lookup takes the extended lookup schema; the other reads
\* name MUTABLE_DATUM_EXTENDED_RESPONSE_SCHEMA, which the module never
\* declares (the import is spelled ..._RESPONS_SCHEMA), and throw
extendedThrows(op, opts) == opts.extended /\ op # "lookup"

\* opts.force: listDir and stat append to the undeclared optsion and throw
forceThrows(op, opts) == opts.force /\ op \in {"listDir", "stat"}

\* the request of a read: what its path carries, and the schema expected
readRequest(op, dsx, path, opts) ==
    IF extendedThrows(op, opts) \/ forceThrows(op, opts) THEN [kind |-> "threw"]
    ELSE [kind |-> "sent",
          schema |-> IF opts.extended THEN "lookup_extended" ELSE readSchema(op),
          request |->
              [op |-> op, endpoint |-> readEndpoint(op), path |-> path,
               device_list |-> dsx.datastore.device_ids,
               extended |-> opts.extended,
               force |-> opts.force,
               idata |-> op \in {"listDir", "getFile"},
               auth |-> op # "lookup" /\ dsx.session_token]]

\* the backend's error for a copy older than the version it has observed
StaleError == [kind |-> "error", error |-> "stale"]

\* the backend's answer to a read: the latest inode at the path, or, when
\* the copy at hand is older than the version observed, that copy if the
\* request carries force and the stale error if not
BackendRead(store, request, schema, stale) ==
    LET u == Walk(store, RootUuid, request.path)
    IN  IF u = NotAUuid THEN Response(404, "text/plain", None)
        ELSE IF ~stale
             THEN Response(200, "application/json", [kind |-> schema, inode |-> store[u]])
        ELSE IF request.force
             THEN Response(200, "application/json",
                           [kind |-> schema,
                            inode |-> [store[u] EXCEPT !.version = @ - 1]])
        ELSE Response(200, "application/json", StaleError)

ReadIdle ==
    [pc |-> "idle", op |-> "none", path |-> <<>>,
     opts |-> [extended |-> FALSE, force |-> FALSE, idata |-> FALSE],
     request |-> None, schema |-> "", response |-> None, stale |-> FALSE,
     nfetch |-> 0, result |-> None]

\* a datastore with /a and /a/f, written a few times
ReadTree ==
    (1 :> [kind |-> "inode", type |-> MUTABLE_DATUM_DIR_TYPE, uuid |-> 1,
           owner |-> DatastoreId, version |-> 3,
           idata |-> [children |-> ("a" :> Dirent(2, MUTABLE_DATUM_DIR_TYPE, 1))]])
    @@ (2 :> [kind |-> "inode", type |-> MUTABLE_DATUM_DIR_TYPE, uuid |-> 2,
              owner |-> DatastoreId, version |-> 3,
              idata |-> [children |-> ("f" :> Dirent(3, MUTABLE_DATUM_FILE_TYPE, 1))]])
    @@ (3 :> [kind |-> "inode", type |-> MUTABLE_DATUM_FILE_TYPE, uuid |-> 3,
              owner |-> DatastoreId, version |-> 1, idata |-> "hello"])

InitRead ==
    /\ ds \in { [datastore_id |-> DatastoreId, device_id |-> AllDeviceIds[1],
                 privkey_hex |-> PrivKey, session_token |-> tok,
                 datastore |-> [device_ids |-> AllDeviceIds, root_uuid |-> RootUuid]]
               : tok \in BOOLEAN }
    /\ inodes = ReadTree
    /\ nextUuid = 4
    /\ call = [c \in Calls |-> ReadIdle]
    /\ created = EmptyMap
    /\ stores = [d \in {DatastoreId} |-> [device_ids |-> AllDeviceIds, root_uuid |-> RootUuid]]

\* the exported function up to its request
ReadStart(c, op, path, opts) ==
    /\ call[c].pc = "idle"
    /\ LET step == readRequest(op, ds, path, opts)
           args == [ReadIdle EXCEPT !.op = op, !.path = path, !.opts = opts]
       IN  call' = [call EXCEPT ![c] =
               IF step.kind = "sent"
               THEN [args EXCEPT !.pc = "reading", !.request = step.request,
                                 !.schema = step.schema, !.nfetch = 1]
               ELSE [args EXCEPT !.pc = "done", !.result = [kind |-> "exception"]]]
    /\ UNCHANGED <<ds, inodes, nextUuid, created, stores>>

\* return httpRequest(options, schema)
ReadReply(c, response, stale) ==
    /\ call[c].pc = "reading"
    /\ call' = [call EXCEPT ![c] =
           [@ EXCEPT !.pc = "done", !.response = response, !.stale = stale,
                     !.result = Settled(httpRequest(response, call[c].schema))]]
    /\ UNCHANGED <<ds, inodes, nextUuid, created, stores>>

\* the backend answers from the copy at hand, current or not
BackendReadReply(c, stale) ==
    /\ call[c].pc = "reading"
    /\ LET u == Walk(inodes, RootUuid, call[c].request.path)
       IN  stale => (u # NotAUuid /\ inodes[u].version > 1)
    /\ ReadReply(c, BackendRead(inodes, call[c].request, call[c].schema, stale), stale)

\* a backend or a transport at fault
BackendReadFault(c, response) == ReadReply(c, response, FALSE)

\* another device of the datastore rewrites an inode
OtherDeviceWrites(u) ==
    /\ u \in DOMAIN inodes
    /\ inodes[u].version < MaxVersion
    /\ inodes' = [inodes EXCEPT ![u].version = @ + 1]
    /\ UNCHANGED <<ds, nextUuid, call, created, stores>>

ReadReturn(c) ==
    /\ call[c].pc = "done"
    /\ call' = [call EXCEPT ![c] = ReadIdle]
    /\ UNCHANGED <<ds, inodes, nextUuid, created, stores>>

NextRead ==
    \/ \E c \in Calls :
          \/ \E op \in ReadOps, path \in ReadPaths, opts \in Opts :
                ReadStart(c, op, path, opts)
          \/ \E stale \in BOOLEAN : BackendReadReply(c, stale)
          \/ \E response \in FaultResponses : BackendReadFault(c, response)
          \/ ReadReturn(c)
    \/ OtherDeviceWrites(RootUuid)

SpecRead == InitRead /\ [][NextRead]_vars

-----------------------------------------------------------------------------
(* sanitizePath on path strings (sequences of characters) *)

\* the longest path string sanitized
MaxPathLen == 6

Chars == {"/", ".", "a"}
PathStrings == UNION { [1..n -> Chars] : n \in 0..MaxPathLen }

\* path.split('/'): the pieces between separators, empty ones included
RECURSIVE split(_)
split(path) ==
    IF path = <<>> THEN << <<>> >>
    ELSE LET rest == split(Tail(path))
         IN  IF Head(path) = "/" THEN << <<>> >> \o rest
             ELSE << <<Head(path)>> \o Head(rest) >> \o Tail(rest)

NonEmpty(x) == Len(x) > 0

\* (mutant) the empty pieces left in
sanitizeFilter_KeepsEmpty(parts) == parts

\* .filter(function(x) {return x.length > 0;})
sanitizeFilter(parts) == SelectSeq(parts, NonEmpty)

\* (mutant) '..' dropped without a pop
sanitizePop_Nothing(retparts) == retparts

\* retparts.pop(): nothing to do on an empty array
sanitizePop(retparts) ==
    IF retparts = <<>> THEN <<>> ELSE SubSeq(retparts, 1, Len(retparts) - 1)

\* the loop over the parts
RECURSIVE sanitizeLoop(_, _)
sanitizeLoop(parts, retparts) ==
    IF parts = <<>> THEN retparts
    ELSE IF Head(parts) = <<".", ".">>
         THEN sanitizeLoop(Tail(parts), sanitizePop(retparts))
         ELSE sanitizeLoop(Tail(parts), Append(retparts, Head(parts)))

\* retparts.join('/')
RECURSIVE join(_)
join(parts) ==
    IF parts = <<>> THEN <<>>
    ELSE IF Len(parts) = 1 THEN parts[1]
    ELSE parts[1] \o <<"/">> \o join(Tail(parts))

sanitizePath(path) ==
    <<"/">> \o join(sanitizeLoop(sanitizeFilter(split(path)), <<>>))

SanIdle(path) ==
    [pc |-> "idle", op |-> "sanitizePath", path |-> path, result |-> <<>>,
     again |-> <<>>]

InitSanitize ==
    /\ ds = None
    /\ inodes = EmptyMap
    /\ stores = EmptyMap
    /\ nextUuid = RootUuid
    /\ created = EmptyMap
    /\ call \in [Calls -> {SanIdle(path) : path \in PathStrings}]

\* sanitizePath(path)
Sanitize(c) ==
    /\ call[c].pc = "idle"
    /\ call' = [call EXCEPT ![c] =
           [@ EXCEPT !.pc = "once", !.result = sanitizePath(call[c].path)]]
    /\ UNCHANGED <<ds, inodes, nextUuid, created, stores>>

\* sanitizePath of the result
SanitizeAgain(c) ==
    /\ call[c].pc = "once"
    /\ call' = [call EXCEPT ![c] =
           [@ EXCEPT !.pc = "done", !.again = sanitizePath(call[c].result)]]
    /\ UNCHANGED <<ds, inodes, nextUuid, created, stores>>

NextSanitize == \E c \in Calls : Sanitize(c) \/ SanitizeAgain(c)

SpecSanitize == InitSanitize /\ [][NextSanitize]_vars

-----------------------------------------------------------------------------
(* Two calls in flight at once: putFile, mkdir, deleteFile and rmdir take no *)
(* lock and queue nothing, so the callbacks and replies of two calls        *)
(* interleave freely.                                                       *)

RaceCalls == {"c1", "c2"}

\* entries of the root: the two calls work on children of one parent
RacePaths == {<<"a">>, <<"f">>}

\* what the backend, or the transport, answers to a request it refuses
StaleResponses ==
    { Response(200, "application/json", StaleError),
      [delivered |-> FALSE, status |-> 0, ctype |-> "", body |-> None] }

InitRace ==
    /\ ds = [datastore_id |-> DatastoreId, device_id |-> AllDeviceIds[1],
             privkey_hex |-> PrivKey, session_token |-> TRUE,
             datastore |-> [device_ids |-> AllDeviceIds, root_uuid |-> RootUuid]]
    /\ inodes = [u \in {RootUuid} |->
                    [kind |-> "inode", type |-> MUTABLE_DATUM_DIR_TYPE, uuid |-> RootUuid,
                     owner |-> DatastoreId, version |-> 1,
                     idata |-> [children |-> EmptyMap]]]
    /\ nextUuid = RootUuid + 1
    /\ call = [c \in RaceCalls |-> Idle]
    /\ created = EmptyMap
    /\ stores = [d \in {DatastoreId} |-> [device_ids |-> AllDeviceIds, root_uuid |-> RootUuid]]

NextRace ==
    \E c \in RaceCalls :
        \/ \E op \in Ops, path \in RacePaths :
              Start(c, op, path, IF op = "putFile" THEN "hello" ELSE "")
        \/ FetchReply(c, BackendFetch(inodes, dirname(call[c].path)))
        \/ \E response \in AcceptResponses : BackendAccept(c, response)
        \/ \E response \in StaleResponses : BackendRefuse(c, response)
        \/ Return(c)

SpecRace == InitRace /\ [][NextRace]_vars

-----------------------------------------------------------------------------
(* The mutations on a datastore whose descriptor lists some devices or none *)

ShapeDeviceLists == {<<>>, <<"d1", "d2">>}

InitShapes ==
    /\ ds \in { [datastore_id |-> DatastoreId, device_id |-> "d1",
                 privkey_hex |-> PrivKey, session_token |-> tok,
                 datastore |-> [device_ids |-> devs, root_uuid |-> RootUuid]]
               : tok \in BOOLEAN, devs \in ShapeDeviceLists }
    /\ inodes = [u \in {RootUuid} |->
                    [kind |-> "inode", type |-> MUTABLE_DATUM_DIR_TYPE, uuid |-> RootUuid,
                     owner |-> DatastoreId, version |-> 1,
                     idata |-> [children |-> EmptyMap]]]
    /\ nextUuid = RootUuid + 1
    /\ call = [c \in Calls |-> Idle]
    /\ created = EmptyMap
    /\ stores = [d \in {DatastoreId} |-> ds.datastore]

SpecShapes == InitShapes /\ [][Next]_vars

-----------------------------------------------------------------------------
(* Properties *)

HasRequest(c) == call[c].request # None
Req(c) == call[c].request
ChildName(c) == basename(call[c].path)
FetchedChildren(c) == call[c].parent.idata.children
ParentHeader(c) == Req(c).inodes[Len(Req(c).inodes)]
IsDelete(op) == op \in {"deleteFile", "rmdir"}
IsLink(op) == op \in {"putFile", "mkdir"}

\* C1: a call issues at most one mutating request; that request carries the
\* parent artifact together with the child artifact (putFile, mkdir) or with
\* one tombstone per device (deleteFile, rmdir); and a call that ended in a
\* typed error (Exists, NotFound, NotADirectory, failed fetch, refusal by the
\* backend) has had none of its artifacts applied to the backend's tree.
C1_OneCombinedRequest ==
    \A c \in Calls :
        /\ call[c].nsent <= 1
        /\ HasRequest(c) =>
              /\ call[c].nsent = 1
              /\ ParentHeader(c).type = MUTABLE_DATUM_DIR_TYPE
              /\ ParentHeader(c).uuid = call[c].parent.uuid
              /\ IsLink(Req(c).op) =>
                    /\ Len(Req(c).inodes) = 2
                    /\ Req(c).inodes[1].uuid # ParentHeader(c).uuid
              /\ IsDelete(Req(c).op) =>
                    Len(Req(c).tombstones) = Len(ds.datastore.device_ids)
        /\ (call[c].pc = "done" /\ IsError(call[c].result)) => ~call[c].applied

\* a putFile whose request (child and parent in one) the backend refused
C1_Witness ==
    \E c \in Calls :
        /\ call[c].pc = "done"
        /\ call[c].op = "putFile"
        /\ HasRequest(c)
        /\ Len(Req(c).inodes) = 2
        /\ IsError(call[c].result)
        /\ ~call[c].applied

\* the order of a call: a submit only after one fetch of a directory and a
\* passed validation
C2_Order ==
    \A c \in Calls :
        /\ call[c].pc # "idle" => call[c].nfetch = 1
        /\ call[c].pc = "fetching" => call[c].nsent = 0
        /\ call[c].nsent <= 1
        /\ call[c].nsent = 1 =>
              /\ HasRequest(c)
              /\ ~IsError(call[c].parent)
              /\ call[c].parent.type = MUTABLE_DATUM_DIR_TYPE
              /\ call[c].op = "mkdir" => ChildName(c) \notin DOMAIN FetchedChildren(c)
              /\ IsDelete(call[c].op) => ChildName(c) \in DOMAIN FetchedChildren(c)
        /\ call[c].pc = "submitting" <=> (call[c].nsent = 1 /\ call[c].result = None)

\* a call that has its result does nothing more: the slot stays as it is
\* until the caller takes the result
C2_Terminal ==
    \A c \in Calls :
        call[c].pc = "done" => (call'[c] = call[c] \/ call'[c] = Idle)

\* C2: every mutation call goes FetchParent -> Validate -> ComputeArtifacts ->
\* Sign -> Submit: exactly one parent fetch first, a submit only after a
\* successful fetch and validation, and no further request (no re-fetch, no
\* retry) once the call reached Success or Rejected.
C2_StateMachine == [](C2_Order) /\ [][C2_Terminal]_vars

\* a mkdir that was submitted and refused: Rejected, with one fetch and one submit
C2_Witness ==
    \E c \in Calls :
        /\ call[c].pc = "done"
        /\ call[c].op = "mkdir"
        /\ call[c].nfetch = 1
        /\ call[c].nsent = 1
        /\ IsError(call[c].result)

\* C3 (as claimed): the parent header submitted carries exactly the version of
\* the freshly fetched parent plus one.
C3_ParentVersionPlusOne ==
    \A c \in Calls :
        HasRequest(c) => ParentHeader(c).version = call[c].parent.version + 1

\* C4: a mkdir of an absent name submits exactly two headers, child then
\* parent, with payloads and signatures in the same order; the child is a new
\* directory with a fresh uuid, version 1 and no children; the parent's
\* children are the fetched ones plus the one entry name -> that uuid.
C4_MkdirRequest ==
    \A c \in Calls :
        (HasRequest(c) /\ Req(c).op = "mkdir") =>
            LET r == Req(c)
                uuid == call[c].fresh
            IN  /\ Len(r.inodes) = 2 /\ Len(r.payloads) = 2 /\ Len(r.signatures) = 2
                /\ r.inodes[1].type = MUTABLE_DATUM_DIR_TYPE
                /\ r.inodes[1].uuid = uuid
                /\ uuid # NotAUuid
                /\ uuid # call[c].parent.uuid
                /\ \A n \in DOMAIN FetchedChildren(c) : FetchedChildren(c)[n].uuid # uuid
                /\ r.inodes[1].version = 1
                /\ r.payloads[1] = [children |-> EmptyMap]
                /\ r.inodes[1].data_hash = hashDataPayload(r.payloads[1])
                /\ r.inodes[2].type = MUTABLE_DATUM_DIR_TYPE
                /\ r.inodes[2].uuid = call[c].parent.uuid
                /\ r.inodes[2].data_hash = hashDataPayload(r.payloads[2])
                /\ DOMAIN r.payloads[2].children =
                       (DOMAIN FetchedChildren(c)) \cup {ChildName(c)}
                /\ ChildName(c) \notin DOMAIN FetchedChildren(c)
                /\ r.payloads[2].children[ChildName(c)].uuid = uuid
                /\ \A n \in DOMAIN FetchedChildren(c) :
                       r.payloads[2].children[n] = FetchedChildren(c)[n]
                /\ \A i \in 1..2 :
                       r.signatures[i] = signDataPayload(r.inodes[i], ds.privkey_hex)

\* a mkdir in flight under a parent that already has another entry
C4_Witness ==
    \E c \in Calls :
        /\ call[c].pc = "submitting"
        /\ Req(c).op = "mkdir"
        /\ DOMAIN FetchedChildren(c) # {}

\* C5 (as claimed): a putFile on a name the fetched parent holds submits a
\* file inode whose uuid is the uuid the children map records for the name,
\* as deleteFile reads it, and leaves the name's uuid as it was; a putFile on
\* an absent name submits a new uuid, different from every uuid of the
\* parent, and links the name to it.
C5_PutFileUuid ==
    \A c \in Calls :
        (HasRequest(c) /\ Req(c).op = "putFile") =>
            LET r == Req(c)
                name == ChildName(c)
                linked == payloadData(r.inodes[2], r.payloads[2]).children
            IN  IF name \in DOMAIN FetchedChildren(c)
                THEN /\ r.inodes[1].uuid =
                            tombstoneUuid(deleteFileInodeUuid(call[c].parent, name))
                     /\ linked[name].uuid = FetchedChildren(c)[name].uuid
                ELSE /\ r.inodes[1].uuid = call[c].fresh
                     /\ call[c].fresh # NotAUuid
                     /\ call[c].fresh # call[c].parent.uuid
                     /\ \A n \in DOMAIN FetchedChildren(c) :
                            FetchedChildren(c)[n].uuid # call[c].fresh
                     /\ linked[name].uuid = call[c].fresh

\* C6: the file version putFile submits is 1 for a name new in the parent and
\* N+1 for a name linked N times before, read from the parent as fetched: the
\* k-th accepted putFile of a path (no delete in between) submits version k.
C6_PutFileVersion ==
    \A c \in Calls :
        (HasRequest(c) /\ Req(c).op = "putFile") =>
            LET v == Req(c).inodes[1].version
            IN  /\ ChildName(c) \notin DOMAIN FetchedChildren(c) => v = 1
                /\ ChildName(c) \in DOMAIN FetchedChildren(c) =>
                      /\ call[c].seen # None
                      /\ v = call[c].seen.links + 1
                      /\ call[c].seen.puts = call[c].seen.links =>
                            v = call[c].seen.puts + 1
                /\ call[c].seen = None <=> ChildName(c) \notin DOMAIN FetchedChildren(c)

\* the second putFile of a path, accepted: it carried version 2
C6_Witness ==
    \E c \in Calls :
        /\ call[c].pc = "done"
        /\ call[c].op = "putFile"
        /\ call[c].applied
        /\ call[c].seen # None
        /\ call[c].seen.puts = 1
        /\ call[c].seen.links = 1
        /\ Req(c).inodes[1].version = 2

\* C7: a deleteFile or rmdir of a name the fetched parent holds submits
\* exactly one inode header, the parent's, whose children are the fetched
\* ones without that name, every other entry unchanged; no child artifact.
C7_DeleteRequest ==
    \A c \in Calls :
        (HasRequest(c) /\ IsDelete(Req(c).op)) =>
            LET r == Req(c)
            IN  /\ Len(r.inodes) = 1 /\ Len(r.payloads) = 1 /\ Len(r.signatures) = 1
                /\ r.inodes[1].type = MUTABLE_DATUM_DIR_TYPE
                /\ r.inodes[1].uuid = call[c].parent.uuid
                /\ r.inodes[1].data_hash = hashDataPayload(r.payloads[1])
                /\ ChildName(c) \in DOMAIN FetchedChildren(c)
                /\ DOMAIN r.payloads[1].children =
                       (DOMAIN FetchedChildren(c)) \ {ChildName(c)}
                /\ \A n \in DOMAIN r.payloads[1].children :
                       r.payloads[1].children[n] = FetchedChildren(c)[n]

\* a deleteFile in flight whose parent keeps another entry
C7_Witness ==
    \E c \in Calls :
        /\ call[c].pc = "submitting"
        /\ Req(c).op = "deleteFile"
        /\ DOMAIN Req(c).payloads[1].children # {}

\* C8 (as claimed): a deleteFile or rmdir that submits attaches exactly one
\* signed tombstone per device of the descriptor's device_ids, each naming the
\* datastore_id and the uuid of the removed child, the uuid under which
\* putFile or mkdir created it.
C8_Tombstones ==
    \A c \in Calls :
        (HasRequest(c) /\ IsDelete(Req(c).op)) =>
            LET ts == Req(c).tombstones
                devs == ds.datastore.device_ids
            IN  /\ Len(ts) = Len(devs)
                /\ \A i \in 1..Len(ts) :
                      /\ ts[i].key = ds.privkey_hex
                      /\ ts[i].tombstone.device_id = devs[i]
                      /\ ts[i].tombstone.datastore_id = ds.datastore_id
                      /\ call[c].seen # None
                      /\ ts[i].tombstone.uuid = call[c].seen.uuid

\* C9: a mkdir whose name the freshly fetched parent already holds (file or
\* directory) resolves to Exists and submits nothing; the tree is untouched.
C9_MkdirExists ==
    \A c \in Calls :
        ( /\ call[c].op = "mkdir"
          /\ call[c].pc \in {"submitting", "done"}
          /\ ~IsError(call[c].parent)
          /\ ChildName(c) \in DOMAIN FetchedChildren(c) ) =>
            /\ call[c].pc = "done"
            /\ call[c].result = Err(EEXIST)
            /\ call[c].nsent = 0
            /\ ~HasRequest(c)
            /\ ~call[c].applied

\* a mkdir on the name of an existing file, ended
C9_Witness ==
    \E c \in Calls :
        /\ call[c].op = "mkdir"
        /\ call[c].pc = "done"
        /\ ~IsError(call[c].parent)
        /\ ChildName(c) \in DOMAIN FetchedChildren(c)
        /\ FetchedChildren(c)[ChildName(c)].type = MUTABLE_DATUM_FILE_TYPE

\* C10: a deleteFile or rmdir whose name is absent from the freshly fetched
\* parent resolves to NotFound, with no tombstones and no request; the tree
\* is untouched.
C10_DeleteNotFound ==
    \A c \in Calls :
        ( /\ IsDelete(call[c].op)
          /\ call[c].pc \in {"submitting", "done"}
          /\ ~IsError(call[c].parent)
          /\ ChildName(c) \notin DOMAIN FetchedChildren(c) ) =>
            /\ call[c].pc = "done"
            /\ call[c].result = Err(ENOENT)
            /\ call[c].nsent = 0
            /\ ~HasRequest(c)
            /\ ~call[c].applied

\* a deleteFile of a name its parent, with other entries, does not hold
C10_Witness ==
    \E c \in Calls :
        /\ call[c].op = "deleteFile"
        /\ call[c].pc = "done"
        /\ ~IsError(call[c].parent)
        /\ ChildName(c) \notin DOMAIN FetchedChildren(c)
        /\ DOMAIN FetchedChildren(c) # {}

\* the call removes a directory that has children in the backend's tree
RmdirOfNonEmpty(c) ==
    /\ call[c].op = "rmdir"
    /\ call[c].pc \in {"submitting", "done"}
    /\ ~IsError(call[c].parent)
    /\ ChildName(c) \in DOMAIN FetchedChildren(c)
    /\ LET u == FetchedChildren(c)[ChildName(c)].uuid
       IN  /\ u \in DOMAIN inodes
           /\ inodes[u].type = MUTABLE_DATUM_DIR_TYPE
           /\ DOMAIN inodes[u].idata.children # {}

\* C11 (as claimed): an rmdir of a directory that still has children fails
\* with a structural error and removes nothing: no request is submitted, and
\* the directory, its entry in the parent and its descendants stay in place.
C11_RmdirNonEmpty ==
    \A c \in Calls :
        RmdirOfNonEmpty(c) =>
            LET u == FetchedChildren(c)[ChildName(c)].uuid
                p == call[c].parent.uuid
            IN  /\ call[c].pc = "done"
                /\ IsError(call[c].result)
                /\ call[c].nsent = 0
                /\ ~call[c].applied
                /\ ChildName(c) \in DOMAIN inodes[p].idata.children
                /\ inodes[p].idata.children[ChildName(c)].uuid = u
                /\ Walk(inodes, RootUuid, call[c].path) = u

-----------------------------------------------------------------------------
(* Properties of the lifecycle *)

IsNotFound(v) == IsError(v) /\ "errno" \in DOMAIN v /\ v.errno = ENOENT
IsRejected(v) == v.kind = "rejected"

\* C12: connectOrCreate issues a create only after its first connect
\* returned NotFound, then exactly one create and, only if the create
\* succeeded, one more connect; any other first outcome is returned with no
\* create, and a failed create or second connect is surfaced with no further
\* request: at most 2 connects and 1 create per call.
C12_ConnectOrCreate ==
    \A c \in Calls :
        call[c].op = "connectOrCreate" =>
            /\ call[c].nconnect <= 2
            /\ call[c].ncreate <= 1
            /\ call[c].ndelete = 0
            /\ call[c].ncreate = 1 => (call[c].nconnect >= 1 /\ IsNotFound(call[c].first))
            /\ call[c].nconnect = 2 =>
                  /\ call[c].ncreate = 1
                  /\ call[c].createres # None
                  /\ ~IsRejected(call[c].createres)
                  /\ ~IsError(call[c].createres)
            /\ call[c].pc = "connect1" => (call[c].nconnect = 1 /\ call[c].ncreate = 0)
            /\ call[c].pc = "creating" => (call[c].nconnect = 1 /\ call[c].ncreate = 1)
            /\ call[c].pc = "connect2" => (call[c].nconnect = 2 /\ call[c].ncreate = 1)
            /\ (call[c].pc = "done" /\ call[c].first # None /\ ~IsNotFound(call[c].first)) =>
                  /\ call[c].ncreate = 0
                  /\ call[c].nconnect = 1
                  /\ IF IsRejected(call[c].first) THEN IsError(call[c].result)
                     ELSE call[c].result = call[c].first
            /\ (call[c].pc = "done" /\ call[c].createres # None
                  /\ (IsRejected(call[c].createres) \/ IsError(call[c].createres))) =>
                  /\ call[c].nconnect = 1
                  /\ IsError(call[c].result)
            /\ (call[c].pc = "done" /\ call[c].second # None) =>
                  /\ call[c].nconnect = 2
                  /\ call[c].ncreate = 1
                  /\ IF IsRejected(call[c].second) THEN call[c].result.kind = "exception"
                     ELSE call[c].result = call[c].second

\* a call that connected, created and connected again, and has its context
C12_Witness ==
    \E c \in Calls :
        /\ call[c].op = "connectOrCreate"
        /\ call[c].pc = "done"
        /\ call[c].nconnect = 2
        /\ call[c].ncreate = 1
        /\ call[c].result.kind = "ctx"

\* C13 (as claimed): for every outcome of the first connect, of the create
\* and of the second connect, the promise of connectOrCreate resolves
\* (never rejects) to a context whose datastore field is the fetched
\* descriptor or to an object with .error defined.
C13_AlwaysResolves ==
    \A c \in Calls :
        (call[c].op = "connectOrCreate" /\ call[c].pc = "done" /\ call[c].nconnect >= 1) =>
            \/ IsError(call[c].result)
            \/ /\ call[c].result.kind = "ctx"
               /\ call[c].result.datastore_id \in DOMAIN stores
               /\ call[c].result.datastore = stores[call[c].result.datastore_id]

\* C14 (as claimed): connectOrCreate never reads ambient state: the key,
\* session, device id and device list in use are the ones passed in, and a
\* missing one is not looked up in a local store.
C14_NoAmbientState ==
    \A c \in Calls :
        call[c].op = "connectOrCreate" =>
            /\ call[c].ambient = 0
            /\ call[c].ctx # None =>
                  /\ call[c].ctx.privkey_hex = call[c].privkey
                  /\ call[c].ctx.session_token = call[c].session
                  /\ call[c].ctx.device_id = call[c].this_device_id
            /\ call[c].info # None =>
                  jsonParse(jsonParse(call[c].info.datastore_info.datastore_blob).payload).device_ids
                      = call[c].all_device_ids

\* C15: the creation bundle holds a root directory at version 1 with no
\* children, whose uuid is the descriptor's root_uuid and whose owner is the
\* datastore_id derived from the key; a descriptor envelope at version 1
\* with device_ids = allDeviceIds; signatures over the root header and over
\* the descriptor; one signed root tombstone per device; and nothing is sent
\* before the bundle is complete.
C15_CreateRequest ==
    \A c \in Calls :
        call[c].info # None =>
            LET info == call[c].info
                root == info.datastore_info.root_blob_header
                blob == jsonParse(info.datastore_info.datastore_blob)
                desc == jsonParse(blob.payload)
                key == call[c].privkey
                id == datastoreGetId(getPubkeyHex(key))
                devs == call[c].all_device_ids
                ts == info.root_tombstones
            IN  /\ root.type = MUTABLE_DATUM_DIR_TYPE
                /\ root.version = 1
                /\ info.datastore_info.root_blob_idata = [children |-> EmptyMap]
                /\ root.data_hash = hashDataPayload(info.datastore_info.root_blob_idata)
                /\ root.uuid = desc.root_uuid
                /\ root.owner = id
                /\ info.datastore_info.datastore_id = id
                /\ (key = "priv1" <=> id = "ds1")
                /\ blob.version = 1
                /\ blob.data_id = datastoreDataId(id)
                /\ desc.device_ids = devs
                /\ desc.type = call[c].ds_type
                /\ info.datastore_sigs.root_sig = signDataPayload(root, key)
                /\ info.datastore_sigs.datastore_sig =
                       signDataPayload(info.datastore_info.datastore_blob, key)
                /\ Len(ts) = Len(devs)
                /\ \A i \in 1..Len(ts) :
                      /\ ts[i].key = key
                      /\ ts[i].tombstone.device_id = devs[i]
                      /\ ts[i].tombstone.uuid = root.uuid
                      /\ ts[i].tombstone.datastore_id = id
                /\ call[c].op = "createRequest" =>
                      (call[c].request = None /\ call[c].nconnect = 0 /\ call[c].ncreate = 0)
                /\ call[c].ncreate = 1 =>
                      /\ call[c].request.datastore_info.datastore_blob =
                             info.datastore_info.datastore_blob
                      /\ call[c].request.datastore_info.root_blob_header = root
                      /\ call[c].request.datastore_sigs = info.datastore_sigs
                      /\ call[c].request.root_tombstones = ts

\* a collection created for two devices with the second key
C15_Witness ==
    \E c \in Calls :
        /\ call[c].op = "createRequest"
        /\ call[c].pc = "done"
        /\ call[c].info # None
        /\ call[c].ds_type = "collection"
        /\ call[c].privkey = "priv2"
        /\ Len(call[c].info.root_tombstones) = 2

\* C16 (as claimed): deleteDatastore submits exactly one delete request, which
\* contains the descriptor tombstones and the root tombstones; the
\* tombstones the caller supplied are the ones submitted, and a set that was
\* not supplied is generated with one signed tombstone per device of the
\* descriptor's device_ids.
C16_DeleteRequest ==
    \A c \in Calls :
        (call[c].op = "deleteDatastore" /\ call[c].pc \in {"deleting", "done"}
            /\ HasDescriptor(call[c].ctx)) =>
            /\ call[c].ndelete = 1
            /\ call[c].request # None
            /\ LET pl == call[c].request.payload
                   devs == call[c].ctx.datastore.device_ids
                   dts == call[c].ds_tombstones
                   rts == call[c].root_tombstones
               IN  /\ dts.given => pl.datastore_tombstones = dts.v
                   /\ rts.given => pl.root_tombstones = rts.v
                   /\ ~dts.given =>
                         /\ Len(pl.datastore_tombstones) = Len(devs)
                         /\ \A i \in 1..Len(devs) :
                               /\ pl.datastore_tombstones[i].key = call[c].ctx.privkey_hex
                               /\ pl.datastore_tombstones[i].tombstone.device_id = devs[i]
                   /\ ~rts.given =>
                         /\ Len(pl.root_tombstones) = Len(devs)
                         /\ \A i \in 1..Len(devs) :
                               /\ pl.root_tombstones[i].key = call[c].ctx.privkey_hex
                               /\ pl.root_tombstones[i].tombstone.device_id = devs[i]
                               /\ pl.root_tombstones[i].tombstone.uuid =
                                      call[c].ctx.datastore.root_uuid

-----------------------------------------------------------------------------
(* Properties of the reads *)

\* the read got the backend's answer for the inode at its path
GotInode(c) ==
    /\ call[c].response # None
    /\ call[c].response.delivered
    /\ call[c].response.status = 200
    /\ call[c].response.body.kind = call[c].schema

\* a response with a body that matches neither the schema asked for nor the
\* error schema
SchemaMismatch(response, schema) ==
    /\ response.delivered
    /\ response.status < 400
    /\ response.body.kind \notin {schema, "error"}

\* C17 (as claimed): a lookup without force surfaces the stale-version error
\* when the copy fetched is older than the version observed; with force,
\* lookup, listDir, stat and getFile issue exactly one fetch, which carries
\* the force override, and resolve to the fetched value, stale or not.
C17_Force ==
    \A c \in Calls :
        call[c].op \in ReadOps =>
            /\ (call[c].op = "lookup" /\ ~call[c].opts.force /\ call[c].pc = "done"
                  /\ call[c].stale) => call[c].result = StaleError
            /\ (call[c].opts.force /\ call[c].pc \in {"reading", "done"}) =>
                  /\ call[c].nfetch = 1
                  /\ call[c].request # None
                  /\ call[c].request.force
            /\ (call[c].opts.force /\ call[c].pc = "done" /\ GotInode(c)) =>
                  /\ call[c].result = call[c].response.body
                  /\ call[c].stale =>
                        call[c].result.inode.version
                            < inodes[call[c].result.inode.uuid].version

\* C20 (as claimed): a call whose response validates against neither the
\* schema expected nor the error schema never resolves to a value: its
\* promise is rejected.
C20_SchemaMismatchAborts ==
    \A c \in Calls :
        (call[c].op \in ReadOps /\ call[c].pc = "done" /\ call[c].response # None
            /\ SchemaMismatch(call[c].response, call[c].schema)) =>
            call[c].result.kind = "exception"

-----------------------------------------------------------------------------
(* Properties of sanitizePath *)

DotDot == <<".", ".">>

\* the segments of a path string: its non-empty pieces
Segments(path) == SelectSeq(split(path), NonEmpty)

\* the number of '..' and of other segments among parts[i..j]
CountDotDot(parts, i, j) == Cardinality({k \in i..j : parts[k] = DotDot})
CountOther(parts, i, j) == Cardinality({k \in i..j : parts[k] # DotDot})

\* segment i survives: it is not '..', and no run of segments after it holds
\* more '..' than other segments
Survives(parts, i) ==
    /\ parts[i] # DotDot
    /\ \A j \in (i + 1)..Len(parts) :
          CountDotDot(parts, i + 1, j) <= CountOther(parts, i + 1, j)

\* the surviving segments, in order
RECURSIVE Survivors(_, _)
Survivors(parts, i) ==
    IF i > Len(parts) THEN <<>>
    ELSE IF Survives(parts, i) THEN <<parts[i]>> \o Survivors(parts, i + 1)
    ELSE Survivors(parts, i + 1)

-----------------------------------------------------------------------------
(* Properties of two calls in flight *)

\* the children of the parent a request submits
SubmittedChildren(c) ==
    payloadData(ParentHeader(c), Req(c).payloads[Len(Req(c).payloads)]).children

\* both calls computed their requests from the same fetched parent
Raced(c1, c2) ==
    /\ c1 # c2
    /\ HasRequest(c1)
    /\ HasRequest(c2)
    /\ call[c1].parent.uuid = call[c2].parent.uuid
    /\ call[c1].parent.version = call[c2].parent.version

\* at most one of two raced requests is applied, the other ends refused, and
\* the committed parent is the one the applied request submitted
OneWinner(c1, c2) ==
    /\ ~(call[c1].applied /\ call[c2].applied)
    /\ call[c1].applied =>
          /\ ~Acceptable(inodes, Req(c2))
          /\ inodes[call[c1].parent.uuid].version = ParentHeader(c1).version
          /\ inodes[call[c1].parent.uuid].idata.children = SubmittedChildren(c1)
          /\ call[c2].pc = "done" =>
                (IsError(call[c2].result) \/ call[c2].result.kind = "exception")

\* C21 (as claimed): two mutations under one parent that both fetched it
\* before either submitted carry the same parent version, fetched + 1; the
\* backend accepts at most one and refuses the other as stale, and the
\* committed parent is the accepted request's: without the refused child,
\* with the accepted one.
C21_Race ==
    \A c1 \in RaceCalls, c2 \in RaceCalls :
        Raced(c1, c2) =>
            /\ ParentHeader(c1).version = ParentHeader(c2).version
            /\ ParentHeader(c1).version = call[c1].parent.version + 1
            /\ OneWinner(c1, c2)

-----------------------------------------------------------------------------
(* Properties of the versions, owners and shapes of what is submitted *)

\* the headers of a request, and the inode the backend holds for a header
Headers(c) == {Req(c).inodes[i] : i \in 1..Len(Req(c).inodes)}
Held(h) == inodes[h.uuid]

\* the name is linked in the fetched parent as a directory
OverDirectory(c) ==
    /\ ChildName(c) \in DOMAIN FetchedChildren(c)
    /\ FetchedChildren(c)[ChildName(c)].type = MUTABLE_DATUM_DIR_TYPE

\* C22 (as claimed): with one mutation at a time, every header this device
\* submits for a uuid carries a version greater than every version it
\* submitted for that uuid before; the versions the backend holds are the
\* last ones it accepted from this device, so each submitted header is
\* newer than the inode held for its uuid.
C22_VersionsIncrease ==
    \A c \in Calls :
        call[c].pc = "submitting" =>
            \A h \in Headers(c) :
                h.uuid \in DOMAIN inodes => h.version > Held(h).version

\* C23: every header submitted under the root's uuid is a directory header
\* whose uuid is the descriptor's root_uuid and whose owner is the
\* datastore_id; and every mutation submits its parent as a directory with
\* the uuid and the owner of the parent it fetched.
C23_RootPreserved ==
    \A c \in Calls :
        HasRequest(c) =>
            /\ ParentHeader(c).type = MUTABLE_DATUM_DIR_TYPE
            /\ ParentHeader(c).uuid = call[c].parent.uuid
            /\ ParentHeader(c).owner = call[c].parent.owner
            /\ Len(call[c].path) = 1 =>
                  ParentHeader(c).uuid = ds.datastore.root_uuid
            /\ \A h \in Headers(c) :
                  h.uuid = ds.datastore.root_uuid =>
                      /\ h.type = MUTABLE_DATUM_DIR_TYPE
                      /\ h.owner = ds.datastore_id

\* the root submitted again by a mkdir, after mutations that rewrote it
C23_Witness ==
    \E c \in Calls :
        /\ call[c].pc = "submitting"
        /\ call[c].op = "mkdir"
        /\ call[c].parent.uuid = ds.datastore.root_uuid
        /\ call[c].parent.version > 1
        /\ ParentHeader(c).uuid = ds.datastore.root_uuid
        /\ ParentHeader(c).owner = ds.datastore_id

\* the call got past its checks on a name the fetched parent holds
DeletePastChecks(c) ==
    /\ IsDelete(call[c].op)
    /\ call[c].pc \in {"submitting", "done"}
    /\ ~IsError(call[c].parent)
    /\ ChildName(c) \in DOMAIN FetchedChildren(c)

\* C24: a submitted request carries headers, payloads and signatures of one
\* length, signature i being the datastore key's signature over header i and
\* payload i the payload header i hashes: 2 entries for mkdir, 1 or 2 for
\* putFile, 1 entry and at least one tombstone for rmdir and deleteFile; a
\* call whose request would not have this shape submits nothing.
C24_RequestShape ==
    \A c \in Calls :
        /\ HasRequest(c) =>
              LET r == Req(c)
              IN  /\ call[c].nsent = 1
                  /\ Len(r.inodes) = Len(r.payloads)
                  /\ Len(r.payloads) = Len(r.signatures)
                  /\ \A i \in 1..Len(r.inodes) :
                        /\ r.signatures[i] = signDataPayload(r.inodes[i], ds.privkey_hex)
                        /\ r.inodes[i].data_hash =
                               hashDataPayload(payloadData(r.inodes[i], r.payloads[i]))
                  /\ r.op = "mkdir" => Len(r.inodes) = 2
                  /\ r.op = "putFile" => Len(r.inodes) \in {1, 2}
                  /\ IsDelete(r.op) => (Len(r.inodes) = 1 /\ Len(r.tombstones) >= 1)
        /\ (DeletePastChecks(c) /\ ds.datastore.device_ids = <<>>) =>
              /\ ~HasRequest(c)
              /\ call[c].nsent = 0
              /\ call[c].pc = "done"
              /\ call[c].result = [kind |-> "exception"]
              /\ ~call[c].applied

\* a deleteFile with no device to make a tombstone for: ended, nothing sent
C24_Witness ==
    \E c \in Calls :
        /\ call[c].op = "deleteFile"
        /\ DeletePastChecks(c)
        /\ ds.session_token
        /\ ds.datastore.device_ids = <<>>
        /\ call[c].nsent = 0

-----------------------------------------------------------------------------
(* Properties of the parent fetch *)

\* the inode the backend holds at the parent's path, NotAUuid if none
ParentAt(path) == Walk(inodes, RootUuid, dirname(path))

\* the call is past a fetch that getParent answered with the error errno
ParentFailed(c, errno) ==
    /\ call[c].pc \in {"submitting", "done"}
    /\ call[c].parent = Err(errno)

NothingSubmitted(c) ==
    /\ call[c].pc = "done"
    /\ call[c].nsent = 0
    /\ ~HasRequest(c)
    /\ ~call[c].applied

\* C25: when the inode fetched as the parent is not a directory, putFile,
\* mkdir, deleteFile and rmdir resolve to NotADirectory and submit nothing:
\* getParent turns every stored file, fetched as a parent, into that error,
\* each callback returns it, and a call that got it ends with it.
C25_NotADirectory ==
    /\ \A u \in DOMAIN inodes :
          inodes[u].type # MUTABLE_DATUM_DIR_TYPE =>
              LET parent_dir == getParent(Response(200, "application/json", inodes[u]))
              IN  /\ parent_dir = Err(ENOTDIR)
                  /\ \A op \in Ops, path \in Paths :
                        Then(op, ds, path, "hello", parent_dir, nextUuid)
                            = Resolved(Err(ENOTDIR))
    /\ \A c \in Calls :
          ParentFailed(c, ENOTDIR) =>
              /\ NothingSubmitted(c)
              /\ call[c].result = Err(ENOTDIR)

\* a mkdir under the path of a stored file, ended
C25_Witness ==
    \E c \in Calls :
        /\ call[c].op = "mkdir"
        /\ call[c].path = <<"f", "a">>
        /\ ParentAt(call[c].path) # NotAUuid
        /\ inodes[ParentAt(call[c].path)].type = MUTABLE_DATUM_FILE_TYPE
        /\ ParentFailed(c, ENOTDIR)
        /\ call[c].result = Err(ENOTDIR)

\* what the gateway makes of the answers a fetch of the call's parent can get
FetchAnswers(c) ==
    {BackendFetch(inodes, dirname(call[c].path))} \cup FaultResponses

\* the gateway resolved the fetch to a typed error
TypedError(response) ==
    /\ ~httpRequest(response, "inode").rejected
    /\ IsError(httpRequest(response, "inode").value)

TransportFailure(response) == ~response.delivered \/ response.status >= 500

\* C26 (as claimed): when the fetch of the parent ends in a typed error
\* (NotFound for a parent that does not exist, AccessDenied), the mutation
\* resolves to an error with that same code and submits nothing, and
\* RemoteIOError is reported for a transport failure only.
C26_TypedErrorKept ==
    \A c \in Calls :
        call[c].pc = "fetching" =>
            \A response \in FetchAnswers(c) :
                LET parent_dir == getParent(response)
                    step == Then(call[c].op, ds, call[c].path, call[c].buf,
                                 parent_dir, nextUuid)
                IN  /\ TypedError(response) =>
                          /\ parent_dir = httpRequest(response, "inode").value
                          /\ step = Resolved(httpRequest(response, "inode").value)
                    /\ parent_dir = Err(EREMOTEIO) => TransportFailure(response)

-----------------------------------------------------------------------------
(* Properties of the target path *)

\* C27 (as claimed): no submitted parent has an entry with the empty name,
\* and no mutation targets the root: a call on the path that sanitizes to
\* '/' ends in an error with nothing submitted; on any other path the parent
\* fetched is the directory at the path's dirname and the child name is the
\* path's last segment, not empty.
C27_NoEmptyName ==
    \A c \in Calls :
        /\ HasRequest(c) => "" \notin DOMAIN SubmittedChildren(c)
        /\ (call[c].pc \in {"submitting", "done"} /\ call[c].path = <<>>) =>
              /\ NothingSubmitted(c)
              /\ IsError(call[c].result)
        /\ ( /\ call[c].pc \in {"submitting", "done"}
             /\ call[c].path # <<>>
             /\ ~IsError(call[c].parent) ) =>
              /\ call[c].parent.uuid = ParentAt(call[c].path)
              /\ ChildName(c) = call[c].path[Len(call[c].path)]
              /\ ChildName(c) # ""

====
